---- MODULE Spec2Model ----
(***************************************************************************)
(* Wake / sample / upload / sleep lifecycle of the air-quality station     *)
(* (class AqMagTag, src/aq_magtag.py; the same escalation and sampling     *)
(* loop appear verbatim in the script variant src/code.py).                *)
(*                                                                         *)
(* One behaviour of the model is a succession of wake cycles.  Everything  *)
(* but alarm.sleep_memory is lost when the device enters deep sleep.       *)
(***************************************************************************)
EXTENDS Integers, Sequences, FiniteSets

(* ---------------- constants.py ---------------- *)
REFRESH_TIME == 10 * 60
SLEEP_MEMORY_SLOT_BACKOFF == 1
SLEEP_MEMORY_SLOT_BACKOFF_TIMES == 2
MINIMUM_BACKOFF == 15
MAXIMUM_BACKOFF == 60 * 5
MAX_BACKOFF_COUNT == 60 \div 5

(* alarm.sleep_memory is a byte array: a slot holds 0..255 and storing any *)
(* other value raises ValueError.                                          *)
ByteMax == 255
Slots == 0 .. 2

(* Number of reads per cycle: self._num_samples *)
NumSamples(dbg) == IF dbg THEN 1 ELSE 10

(* `if failed_readings > 3` *)
MaxFailedReadings == 3

(* `while self._connect_tries <= 5` *)
MaxConnectTries == 5

(* `for x in range(3)` in push_to_io *)
PushAttempts == 3

(* self._magtag.exit_and_deep_sleep(60 * 5) *)
ConnectFailureSleep == 60 * 5

(* The fields of one PM25 reading, as debug.print_particle_values and      *)
(* process_events index them.                                              *)
Columns == 1 .. 12

(* The feeds push_to_io is called for: one for each field of the averages, *)
(* and temperature, humidity and battery voltage                           *)
FeedKeys ==
    {"pm10-standard", "pm25-standard", "pm100-standard",
     "pm10-env", "pm25-env", "pm100-env",
     "particles-03um", "particles-05um", "particles-10um",
     "particles-25um", "particles-50um", "particles-100um",
     "temperature-c", "relative-humidity", "battery-voltage"}

(* ---------------- bounds of the model ---------------- *)
(* the network comes up only within this many ConnectionErrors of a cycle  *)
MaxFaultsBeforeConnect == 1
(* network.connect() returns with the network still disabled at most this  *)
(* many times in one cycle                                                 *)
MaxNotEnabled == 2
(* a halted program is restarted only while fewer escalations than this    *)
(* have run since the store was last clear                                 *)
MaxBackoffTimes == 14
(* largest persisted count an arbitrary store starts with                  *)
MaxInitCount == 2

(* largest light level the handling of a pin alarm is tried on *)
MaxLight == 2100

LightLevels == 0 .. MaxLight

(* contents of a slot the clearing of the store is tried on *)
SlotValues == {0, 1, MINIMUM_BACKOFF, ByteMax}

(* persisted delays a whole-cycle run over an arbitrary store starts with  *)
PersistedDelays == {0, 30, 128}

(* persisted counts one escalation is tried on *)
PersistedCounts ==
    (0 .. MaxInitCount) \cup {MAX_BACKOFF_COUNT - 2, MAX_BACKOFF_COUNT - 1,
                              MAX_BACKOFF_COUNT, ByteMax}

VARIABLES
    debug,                 \* self._debug (constructor argument)
    sleep_memory,          \* alarm.sleep_memory
    wake_alarm,            \* alarm.wake_alarm: "none" | "timer" | "pin"
    pc,                    \* position of the single thread of control
    fault,                 \* the unhandled exception that stopped the program
    pm25_standby_pin_io,   \* self._pm25_standby_pin_io is not None
    connect_tries,         \* self._connect_tries
    connected,             \* self._connected
    not_enabled,           \* connect() returns that left the network disabled
    c,                     \* loop index of get_pm25_measurements
    failed_readings,       \* failed_readings of get_pm25_measurements
    measurements,          \* measurements: the attempt index of each reading
    pm25_averages,         \* keys of the pm25_averages mapping
    steps,                 \* what this cycle has done so far
    sleep_kind,            \* the deep sleep last entered
    sleep_length,          \* seconds to the time alarm of that sleep
    sleep_time,            \* sleep_time as the last escalation stored it
    prior,                 \* the backoff state the last escalation read
    esc_calls,             \* escalations since the store was last clear
    cycle_start,           \* alarm.sleep_memory as this cycle found it
    light,                 \* self._magtag.peripherals.light as _handle_alarms read it
    neopixel_brightness,   \* neopixel_brightness of _handle_alarms, in hundredths
    feed_key,              \* feed_key of the push_to_io call under way
    x,                     \* loop index of push_to_io
    failed_push,           \* failed_push of push_to_io
    deliveries             \* outcome of each self._magtag.push_to_io call made

vars == <<debug, sleep_memory, wake_alarm, pc, fault, pm25_standby_pin_io,
          connect_tries, connected, not_enabled, c, failed_readings,
          measurements, pm25_averages, steps, sleep_kind, sleep_length,
          sleep_time, prior, esc_calls, cycle_start, light,
          neopixel_brightness, feed_key, x, failed_push, deliveries>>

alarm_vars == <<light, neopixel_brightness>>

push_vars == <<feed_key, x, failed_push, deliveries>>

esc_locals == <<sleep_time, prior>>

cycle_vars == <<pm25_standby_pin_io, connect_tries, connected, not_enabled, c,
                failed_readings, measurements, pm25_averages>>

(* class attributes of AqMagTag: the state of a freshly started program *)
FreshCycle ==
    /\ pm25_standby_pin_io' = FALSE
    /\ connect_tries' = 0
    /\ connected' = FALSE
    /\ not_enabled' = 0
    /\ c' = 0
    /\ failed_readings' = 0
    /\ measurements' = <<>>
    /\ pm25_averages' = {}

BackoffState(mem) ==
    [delay_seconds |-> mem[SLEEP_MEMORY_SLOT_BACKOFF],
     cycle_count |-> mem[SLEEP_MEMORY_SLOT_BACKOFF_TIMES]]

NoBackoff == [delay_seconds |-> 0, cycle_count |-> 0]

IsByte(v) == v \in 0 .. ByteMax

(* sleep memory holding the backoff state {d, n}, the other slot zero *)
Persisted(d, n) ==
    [[s \in Slots |-> 0] EXCEPT ![SLEEP_MEMORY_SLOT_BACKOFF] = d,
                                ![SLEEP_MEMORY_SLOT_BACKOFF_TIMES] = n]

InitCommon ==
    /\ debug \in BOOLEAN
    /\ wake_alarm = "none"
    /\ pc = "setup"
    /\ fault = "none"
    /\ pm25_standby_pin_io = FALSE
    /\ connect_tries = 0
    /\ connected = FALSE
    /\ not_enabled = 0
    /\ c = 0
    /\ failed_readings = 0
    /\ measurements = <<>>
    /\ pm25_averages = {}
    /\ steps = {}
    /\ sleep_kind = "none"
    /\ sleep_length = 0
    /\ sleep_time = 0
    /\ prior = NoBackoff
    /\ esc_calls = 0
    /\ light = 0
    /\ neopixel_brightness = 0
    /\ feed_key = "none"
    /\ x = 0
    /\ failed_push = FALSE
    /\ deliveries = <<>>

(* factory boot: the store is inactive *)
Init ==
    /\ InitCommon
    /\ sleep_memory = Persisted(0, 0)
    /\ cycle_start = sleep_memory

(* first boot of this program over an arbitrary content of the store *)
InitAny ==
    /\ InitCommon
    /\ \E d \in PersistedDelays, n \in 0 .. MaxInitCount :
          sleep_memory = Persisted(d, n)
    /\ cycle_start = sleep_memory


(* ---------------- the persistent backoff store ---------------- *)

(* alarm.sleep_memory[slot] = v *)
StoreSlot(mem, slot, v) == [mem EXCEPT ![slot] = v]

(* clear_backoff zeroing every slot of the sleep memory *)
clear_backoffAll(mem) == [s \in DOMAIN mem |-> 0]

(* clear_backoff() *)
clear_backoff(mem) ==
    StoreSlot(StoreSlot(mem, SLEEP_MEMORY_SLOT_BACKOFF, 0),
              SLEEP_MEMORY_SLOT_BACKOFF_TIMES, 0)

(* deep_sleep(backoff): the sleep entered and the seconds to its time alarm *)
deep_sleep(mem, backoff) ==
    IF backoff
    THEN [kind |-> "backoff", length |-> mem[SLEEP_MEMORY_SLOT_BACKOFF]]
    ELSE [kind |-> "normal", length |-> REFRESH_TIME]

(* Escalate with the fatal test written > instead of >= *)
EscalateLateFatal(mem) ==
    LET read_time == mem[SLEEP_MEMORY_SLOT_BACKOFF]
        read_count == mem[SLEEP_MEMORY_SLOT_BACKOFF_TIMES]
        init_time == IF read_time = 0 THEN MINIMUM_BACKOFF ELSE read_time
        init_count == IF read_time = 0 THEN 0 ELSE read_count
        new_time == IF MINIMUM_BACKOFF < init_time /\ init_time < MAXIMUM_BACKOFF
                    THEN init_time * 2 ELSE init_time
        new_count == init_count + 1
        mem1 == StoreSlot(mem, SLEEP_MEMORY_SLOT_BACKOFF, new_time)
        mem2 == StoreSlot(mem1, SLEEP_MEMORY_SLOT_BACKOFF_TIMES, new_count)
    IN  IF ~IsByte(new_time)
        THEN [mem |-> mem, sleep_time |-> new_time, backoff_count |-> new_count,
              end |-> "ValueError"]
        ELSE IF ~IsByte(new_count)
        THEN [mem |-> mem1, sleep_time |-> new_time, backoff_count |-> new_count,
              end |-> "ValueError"]
        ELSE [mem |-> mem2, sleep_time |-> new_time, backoff_count |-> new_count,
              end |-> IF new_count > MAX_BACKOFF_COUNT
                      THEN "ConnectionError" ELSE "sleep"]

(* Escalate without `backoff_count = 0` for an inactive store *)
EscalateKeepCount(mem) ==
    LET read_time == mem[SLEEP_MEMORY_SLOT_BACKOFF]
        read_count == mem[SLEEP_MEMORY_SLOT_BACKOFF_TIMES]
        init_time == IF read_time = 0 THEN MINIMUM_BACKOFF ELSE read_time
        init_count == read_count
        new_time == IF MINIMUM_BACKOFF < init_time /\ init_time < MAXIMUM_BACKOFF
                    THEN init_time * 2 ELSE init_time
        new_count == init_count + 1
        mem1 == StoreSlot(mem, SLEEP_MEMORY_SLOT_BACKOFF, new_time)
        mem2 == StoreSlot(mem1, SLEEP_MEMORY_SLOT_BACKOFF_TIMES, new_count)
    IN  IF ~IsByte(new_time)
        THEN [mem |-> mem, sleep_time |-> new_time, backoff_count |-> new_count,
              end |-> "ValueError"]
        ELSE IF ~IsByte(new_count)
        THEN [mem |-> mem1, sleep_time |-> new_time, backoff_count |-> new_count,
              end |-> "ValueError"]
        ELSE [mem |-> mem2, sleep_time |-> new_time, backoff_count |-> new_count,
              end |-> IF new_count >= MAX_BACKOFF_COUNT
                      THEN "ConnectionError" ELSE "sleep"]

(* deep_sleep_exponential_backoff(), up to its last line: the values it    *)
(* computes, the store it leaves and how it ends                           *)
(*   "sleep"            it goes on to deep_sleep(backoff=True)             *)
(*   "ConnectionError"  it raises the fatal condition                      *)
(*   "ValueError"       a store of a value that is no byte raised          *)
Escalate(mem) ==
    LET read_time == mem[SLEEP_MEMORY_SLOT_BACKOFF]
        read_count == mem[SLEEP_MEMORY_SLOT_BACKOFF_TIMES]
        init_time == IF read_time = 0 THEN MINIMUM_BACKOFF ELSE read_time
        init_count == IF read_time = 0 THEN 0 ELSE read_count
        new_time == IF MINIMUM_BACKOFF < init_time /\ init_time < MAXIMUM_BACKOFF
                    THEN init_time * 2 ELSE init_time
        new_count == init_count + 1
        mem1 == StoreSlot(mem, SLEEP_MEMORY_SLOT_BACKOFF, new_time)
        mem2 == StoreSlot(mem1, SLEEP_MEMORY_SLOT_BACKOFF_TIMES, new_count)
    IN  IF ~IsByte(new_time)
        THEN [mem |-> mem, sleep_time |-> new_time, backoff_count |-> new_count,
              end |-> "ValueError"]
        ELSE IF ~IsByte(new_count)
        THEN [mem |-> mem1, sleep_time |-> new_time, backoff_count |-> new_count,
              end |-> "ValueError"]
        ELSE [mem |-> mem2, sleep_time |-> new_time, backoff_count |-> new_count,
              end |-> IF new_count >= MAX_BACKOFF_COUNT
                      THEN "ConnectionError" ELSE "sleep"]

(* ---------------- the uplink ---------------- *)

(* push_to_io() against a collaborator whose first `fails` deliveries raise *)
(* RuntimeError: the deliveries attempted and the value returned            *)
push_to_io(dbg, fails) ==
    IF dbg
    THEN [attempts |-> 0, returned |-> FALSE]
    ELSE IF fails >= PushAttempts
    THEN [attempts |-> PushAttempts, returned |-> TRUE]
    ELSE [attempts |-> fails + 1, returned |-> FALSE]

(* what a run of pushes adds to the record of the cycle *)
PushSteps(results) ==
    (IF \E r \in results : r.attempts > 0 THEN {"push"} ELSE {})
    \cup (IF \E r \in results : r.attempts = PushAttempts /\ r.returned
          THEN {"push_exhausted"} ELSE {})

(* One call of push_to_io(), step by step.  The collaborator             *)
(* self._magtag.push_to_io either returns or raises RuntimeError.          *)

(* self._debug: nothing is pushed *)
PushSkipped ==
    /\ pc = "push"
    /\ debug
    /\ pc' = "pushed"
    /\ UNCHANGED <<debug, alarm_vars, push_vars, cycle_start,
                   sleep_memory, wake_alarm, fault, cycle_vars, steps,
                   sleep_kind, sleep_length, esc_locals, esc_calls>>

(* a turn of the loop in which the collaborator returns: failed_push =     *)
(* False, break, return failed_push                                        *)
PushDelivered ==
    /\ pc = "push"
    /\ ~debug
    /\ x < PushAttempts
    /\ deliveries' = Append(deliveries, "ok")
    /\ failed_push' = FALSE
    /\ pc' = "pushed"
    /\ UNCHANGED <<debug, alarm_vars, cycle_start, feed_key, x,
                   sleep_memory, wake_alarm, fault, cycle_vars, steps,
                   sleep_kind, sleep_length, esc_locals, esc_calls>>

(* PushRuntimeError with the exception ending the loop *)
PushRuntimeErrorAborts ==
    /\ pc = "push"
    /\ ~debug
    /\ x < PushAttempts
    /\ deliveries' = Append(deliveries, "RuntimeError")
    /\ failed_push' = TRUE
    /\ pc' = "pushed"
    /\ UNCHANGED <<debug, alarm_vars, cycle_start, feed_key, x,
                   sleep_memory, wake_alarm, fault, cycle_vars, steps,
                   sleep_kind, sleep_length, esc_locals, esc_calls>>

(* a turn of the loop in which the collaborator raises RuntimeError:       *)
(* failed_push = True, continue                                            *)
PushRuntimeError ==
    /\ pc = "push"
    /\ ~debug
    /\ x < PushAttempts
    /\ deliveries' = Append(deliveries, "RuntimeError")
    /\ failed_push' = TRUE
    /\ x' = x + 1
    /\ UNCHANGED <<debug, alarm_vars, cycle_start, feed_key,
                   sleep_memory, wake_alarm, pc, fault, cycle_vars, steps,
                   sleep_kind, sleep_length, esc_locals, esc_calls>>

(* range(3) is used up: return failed_push *)
PushExhausted ==
    /\ pc = "push"
    /\ ~debug
    /\ x = PushAttempts
    /\ pc' = "pushed"
    /\ UNCHANGED <<debug, alarm_vars, push_vars, cycle_start,
                   sleep_memory, wake_alarm, fault, cycle_vars, steps,
                   sleep_kind, sleep_length, esc_locals, esc_calls>>

(* ---------------- entering sleep, halting ---------------- *)

(* alarm.exit_and_deep_sleep_until_alarms(...): RAM is lost *)
EnterSleep(kind, length) ==
    /\ pc' = "sleeping"
    /\ sleep_kind' = kind
    /\ sleep_length' = length
    /\ FreshCycle

(* an exception nothing catches ends the program *)
Halt(exception) ==
    /\ pc' = "fault"
    /\ fault' = exception
    /\ FreshCycle

(* ---------------- waking ---------------- *)

(* the time alarm of the sleep fires *)
TimerWake ==
    /\ pc = "sleeping"
    /\ pc' = "setup"
    /\ wake_alarm' = "timer"
    /\ steps' = {}
    /\ cycle_start' = sleep_memory
    /\ sleep_time' = 0
    /\ prior' = NoBackoff
    /\ UNCHANGED <<debug, alarm_vars, push_vars,
                   sleep_memory, fault, cycle_vars, sleep_kind,
                   sleep_length, esc_calls>>

(* PinWake with every sleep waiting on the pin alarm *)
PinWakeAnySleep ==
    /\ pc = "sleeping"
    /\ pc' = "setup"
    /\ wake_alarm' = "pin"
    /\ steps' = {}
    /\ cycle_start' = sleep_memory
    /\ sleep_time' = 0
    /\ prior' = NoBackoff
    /\ UNCHANGED <<debug, alarm_vars, push_vars,
                   sleep_memory, fault, cycle_vars, sleep_kind,
                   sleep_length, esc_calls>>

(* the button fires the pin alarm: only normal sleep waits on it *)
PinWake ==
    /\ pc = "sleeping"
    /\ sleep_kind = "normal"
    /\ pc' = "setup"
    /\ wake_alarm' = "pin"
    /\ steps' = {}
    /\ cycle_start' = sleep_memory
    /\ sleep_time' = 0
    /\ prior' = NoBackoff
    /\ UNCHANGED <<debug, alarm_vars, push_vars,
                   sleep_memory, fault, cycle_vars, sleep_kind,
                   sleep_length, esc_calls>>

(* the halted program is started again (reset): no wake alarm, the store   *)
(* is kept                                                                 *)
Restart ==
    /\ pc = "fault"
    /\ esc_calls < MaxBackoffTimes
    /\ pc' = "setup"
    /\ fault' = "none"
    /\ wake_alarm' = "none"
    /\ steps' = {}
    /\ cycle_start' = sleep_memory
    /\ sleep_time' = 0
    /\ prior' = NoBackoff
    /\ sleep_kind' = "none"
    /\ sleep_length' = 0
    /\ UNCHANGED <<debug, alarm_vars, push_vars,
                   sleep_memory, cycle_vars, esc_calls>>

(* ---------------- setup() ---------------- *)

(* _setup_digital_pins returns before creating the standby pin on a pin    *)
(* wake, and _start_sensor_warmup then sets .value on None                 *)
Setup ==
    /\ pc = "setup"
    /\ IF wake_alarm = "pin"
       THEN Halt("AttributeError")
       ELSE /\ pm25_standby_pin_io' = TRUE
            /\ pc' = "handle_alarms"
            /\ UNCHANGED <<fault, connect_tries, connected, not_enabled, c,
                           failed_readings, measurements, pm25_averages>>
    /\ UNCHANGED <<debug, alarm_vars, push_vars, cycle_start,
                   sleep_memory, wake_alarm, steps, sleep_kind,
                   sleep_length, esc_locals, esc_calls>>

(* the neopixel_brightness _handle_alarms computes from the light level,   *)
(* in hundredths: three `if` statements one after the other, each of       *)
(* which overwrites the value the one before it chose                      *)
Brightness(l) ==
    LET initial == 25
        after_700 == IF l < 700 THEN 50 ELSE initial
        after_1500 == IF l < 1500 THEN 75 ELSE after_700
        after_2000 == IF l < 2000 THEN 100 ELSE after_1500
    IN  after_2000

(* _handle_alarms(), and for a wake that is no pin alarm the rest of       *)
(* setup().  On a pin alarm: the indicator is lit at the brightness picked *)
(* from the light level, then self.deep_sleep().                           *)
handle_alarms ==
    /\ pc = "handle_alarms"
    /\ IF wake_alarm = "pin"
       THEN \E l \in LightLevels :
               LET s == deep_sleep(sleep_memory, FALSE)
               IN  /\ light' = l
                   /\ neopixel_brightness' = Brightness(l)
                   /\ steps' = steps \cup {"indicator"}
                   /\ EnterSleep(s.kind, s.length)
       ELSE /\ pc' = "connect"
            /\ UNCHANGED <<alarm_vars, steps, cycle_vars, sleep_kind,
                           sleep_length>>
    /\ UNCHANGED <<debug, push_vars, cycle_start, sleep_memory, wake_alarm,
                   fault, esc_locals, esc_calls>>

(* ---------------- connect() ---------------- *)

(* network.connect() raises ConnectionError *)
ConnectFault ==
    /\ pc = "connect"
    /\ connect_tries <= MaxConnectTries
    /\ connect_tries' = connect_tries + 1
    /\ UNCHANGED <<debug, alarm_vars, push_vars, cycle_start,
                   sleep_memory, wake_alarm, pc, fault,
                   pm25_standby_pin_io, connected, not_enabled, c,
                   failed_readings, measurements, pm25_averages, steps,
                   sleep_kind, sleep_length, esc_locals, esc_calls>>

(* network.connect() returns and the network is enabled *)
ConnectEnabled ==
    /\ pc = "connect"
    /\ connect_tries <= MaxConnectTries
    /\ connect_tries <= MaxFaultsBeforeConnect
    /\ connected' = TRUE
    /\ not_enabled' = 0
    /\ pc' = "process"
    /\ UNCHANGED <<debug, alarm_vars, push_vars, cycle_start,
                   sleep_memory, wake_alarm, fault, pm25_standby_pin_io,
                   connect_tries, c, failed_readings, measurements,
                   pm25_averages, steps, sleep_kind, sleep_length, esc_locals,
                   esc_calls>>

(* network.connect() returns and the network is not enabled: the loop goes  *)
(* round without counting the try                                           *)
ConnectNotEnabled ==
    /\ pc = "connect"
    /\ connect_tries <= MaxConnectTries
    /\ not_enabled < MaxNotEnabled
    /\ not_enabled' = not_enabled + 1
    /\ UNCHANGED <<debug, alarm_vars, push_vars, cycle_start,
                   sleep_memory, wake_alarm, pc, fault,
                   pm25_standby_pin_io, connect_tries, connected, c,
                   failed_readings, measurements, pm25_averages, steps,
                   sleep_kind, sleep_length, esc_locals, esc_calls>>

(* ConnectGiveUp with the store cleared before the sleep *)
ConnectGiveUpClears ==
    /\ pc = "connect"
    /\ connect_tries > MaxConnectTries
    /\ ~connected
    /\ sleep_memory' = clear_backoff(sleep_memory)
    /\ EnterSleep("connect_failure", ConnectFailureSleep)
    /\ UNCHANGED <<debug, alarm_vars, push_vars, cycle_start,
                   wake_alarm, fault, steps, esc_locals, esc_calls>>

(* the loop ran out: magtag.exit_and_deep_sleep(60 * 5) *)
ConnectGiveUp ==
    /\ pc = "connect"
    /\ connect_tries > MaxConnectTries
    /\ ~connected
    /\ EnterSleep("connect_failure", ConnectFailureSleep)
    /\ UNCHANGED <<debug, alarm_vars, push_vars, cycle_start,
                   sleep_memory, wake_alarm, fault, steps, esc_locals,
                   esc_calls>>


(* ---------------- process_events() ---------------- *)

(* GetSht31dReadings with the pushes made also after an OSError *)
GetSht31dReadingsAlwaysPushes ==
    /\ pc = "process"
    /\ \E ok \in BOOLEAN, f1, f2 \in 0 .. PushAttempts :
          steps' = (IF ok THEN steps \cup {"sht31d"} ELSE steps)
                   \cup PushSteps({push_to_io(debug, f1),
                                   push_to_io(debug, f2)})
    /\ pc' = "sample"
    /\ UNCHANGED <<debug, alarm_vars, push_vars, cycle_start,
                   sleep_memory, wake_alarm, fault, cycle_vars,
                   sleep_kind, sleep_length, esc_locals, esc_calls>>

(* get_sht31d_readings(): a sensor read that raises OSError returns at     *)
(* once, otherwise temperature and humidity are pushed                     *)
GetSht31dReadings ==
    /\ pc = "process"
    /\ \E ok \in BOOLEAN, f1, f2 \in 0 .. PushAttempts :
          steps' = IF ok
                   THEN steps \cup {"sht31d"}
                        \cup PushSteps({push_to_io(debug, f1),
                                        push_to_io(debug, f2)})
                   ELSE steps
    /\ pc' = "sample"
    /\ UNCHANGED <<debug, alarm_vars, push_vars, cycle_start,
                   sleep_memory, wake_alarm, fault, cycle_vars,
                   sleep_kind, sleep_length, esc_locals, esc_calls>>

(* ReadOk with a successful read resetting the failure counter *)
ReadOkResets ==
    /\ pc = "sample"
    /\ c < NumSamples(debug)
    /\ ~(failed_readings > MaxFailedReadings)
    /\ measurements' = Append(measurements, c)
    /\ failed_readings' = 0
    /\ c' = c + 1
    /\ UNCHANGED <<debug, alarm_vars, push_vars, cycle_start,
                   sleep_memory, wake_alarm, pc, fault,
                   pm25_standby_pin_io, connect_tries, connected, not_enabled,
                   pm25_averages, steps, sleep_kind, sleep_length, esc_locals,
                   esc_calls>>

(* one turn of the loop of get_pm25_measurements(): self._pm25.read()      *)
(* returns a reading                                                       *)
ReadOk ==
    /\ pc = "sample"
    /\ c < NumSamples(debug)
    /\ ~(failed_readings > MaxFailedReadings)
    /\ measurements' = Append(measurements, c)
    /\ c' = c + 1
    /\ UNCHANGED <<debug, alarm_vars, push_vars, cycle_start,
                   sleep_memory, wake_alarm, pc, fault,
                   pm25_standby_pin_io, connect_tries, connected, not_enabled,
                   failed_readings, pm25_averages, steps, sleep_kind,
                   sleep_length, esc_locals, esc_calls>>

(* ReadFail with the failed attempt tried again in place *)
ReadFailRetries ==
    /\ pc = "sample"
    /\ c < NumSamples(debug)
    /\ ~(failed_readings > MaxFailedReadings)
    /\ failed_readings' = failed_readings + 1
    /\ UNCHANGED <<debug, alarm_vars, push_vars, cycle_start,
                   sleep_memory, wake_alarm, pc, fault,
                   pm25_standby_pin_io, connect_tries, connected, not_enabled,
                   c, measurements, pm25_averages, steps, sleep_kind,
                   sleep_length, esc_locals, esc_calls>>

(* one turn of the loop: self._pm25.read() raises RuntimeError *)
ReadFail ==
    /\ pc = "sample"
    /\ c < NumSamples(debug)
    /\ ~(failed_readings > MaxFailedReadings)
    /\ failed_readings' = failed_readings + 1
    /\ c' = c + 1
    /\ UNCHANGED <<debug, alarm_vars, push_vars, cycle_start,
                   sleep_memory, wake_alarm, pc, fault,
                   pm25_standby_pin_io, connect_tries, connected, not_enabled,
                   measurements, pm25_averages, steps, sleep_kind,
                   sleep_length, esc_locals, esc_calls>>

(* a turn of the loop that starts with failed_readings > 3:                *)
(* deep_sleep_exponential_backoff()                                        *)
deep_sleep_exponential_backoff ==
    /\ pc = "sample"
    /\ c < NumSamples(debug)
    /\ failed_readings > MaxFailedReadings
    /\ LET e == Escalate(sleep_memory)
           s == deep_sleep(e.mem, TRUE)
       IN  /\ sleep_memory' = e.mem
           /\ sleep_time' = e.sleep_time
           /\ prior' = BackoffState(sleep_memory)
           /\ esc_calls' = esc_calls + 1
           /\ steps' = steps \cup {"escalated"}
           /\ IF e.end = "sleep"
              THEN /\ EnterSleep(s.kind, s.length)
                   /\ UNCHANGED fault
              ELSE /\ Halt(e.end)
                   /\ UNCHANGED <<sleep_kind, sleep_length>>
    /\ UNCHANGED <<debug, alarm_vars, push_vars, cycle_start,
                   wake_alarm>>

(* the loop is over: get_pm25_measurements() returns measurements *)
SamplerReturn ==
    /\ pc = "sample"
    /\ c = NumSamples(debug)
    /\ pc' = "aggregate"
    /\ steps' = steps \cup {"sampled"}
                 \cup (IF Len(measurements) = NumSamples(debug)
                       THEN {"full_batch"} ELSE {})
    /\ UNCHANGED <<debug, alarm_vars, push_vars, cycle_start,
                   sleep_memory, wake_alarm, fault, cycle_vars,
                   sleep_kind, sleep_length, esc_locals, esc_calls>>

(* get_pm25_averages(measurements): one average and, outside debug mode,   *)
(* one push for each column of a batch that is not empty.  pushes[k] is    *)
(* the number of deliveries that fail for column k.                        *)
PushPatterns ==
    {[k \in Columns |-> n] : n \in 0 .. PushAttempts}
    \cup {[k \in Columns |-> IF k = j THEN PushAttempts ELSE 0] : j \in {1, 12}}

(* get_pm25_averages with a push that used up its attempts raising *)
get_pm25_averagesAborts ==
    /\ pc = "aggregate"
    /\ \E pushes \in PushPatterns :
          LET pushed == IF measurements # <<>>
                        THEN PushSteps({push_to_io(debug, pushes[k]) : k \in Columns})
                        ELSE {}
          IN  /\ steps' = steps \cup {"aggregated"} \cup pushed
              /\ IF "push_exhausted" \in pushed
                 THEN Halt("RuntimeError")
                 ELSE /\ pm25_averages' = IF measurements # <<>> THEN Columns ELSE {}
                      /\ pc' = "finish"
                      /\ c' = 0
                      /\ failed_readings' = 0
                      /\ measurements' = <<>>
                      /\ UNCHANGED <<fault, pm25_standby_pin_io, connect_tries,
                                     connected, not_enabled>>
    /\ UNCHANGED <<debug, alarm_vars, push_vars, cycle_start,
                   sleep_memory, wake_alarm, sleep_kind, sleep_length,
                   esc_locals, esc_calls>>

get_pm25_averages ==
    /\ pc = "aggregate"
    /\ pm25_averages' = IF measurements # <<>> THEN Columns ELSE {}
    /\ \E pushes \in PushPatterns :
          steps' = steps \cup {"aggregated"}
                   \cup IF measurements # <<>>
                        THEN PushSteps({push_to_io(debug, pushes[k]) : k \in Columns})
                        ELSE {}
    /\ pc' = "finish"
    /\ c' = 0
    /\ failed_readings' = 0
    /\ measurements' = <<>>
    /\ UNCHANGED <<debug, alarm_vars, push_vars, cycle_start,
                   sleep_memory, wake_alarm, fault, pm25_standby_pin_io,
                   connect_tries, connected, not_enabled, sleep_kind,
                   sleep_length, esc_locals, esc_calls>>

(* FinishCycle without the call of clear_backoff() *)
FinishCycleKeepsStore ==
    /\ pc = "finish"
    /\ \E f \in 0 .. PushAttempts :
        LET pushed == IF debug THEN {} ELSE PushSteps({push_to_io(debug, f)})
            s == deep_sleep(sleep_memory, FALSE)
        IN  IF pm25_averages = {}
            THEN /\ Halt("KeyError")
                 /\ steps' = steps \cup pushed
                 /\ UNCHANGED <<sleep_memory, sleep_kind, sleep_length,
                                esc_calls>>
            ELSE /\ steps' = steps \cup pushed \cup {"rendered", "cleared"}
                 /\ UNCHANGED sleep_memory
                 /\ esc_calls' = 0
                 /\ EnterSleep(s.kind, s.length)
                 /\ UNCHANGED fault
    /\ UNCHANGED <<debug, alarm_vars, push_vars, cycle_start,
                   wake_alarm, esc_locals>>

(* the rest of process_events(): the battery push, the labels (a lookup in *)
(* an empty pm25_averages raises KeyError), the display, clear_backoff()   *)
(* and deep_sleep()                                                        *)
FinishCycle ==
    /\ pc = "finish"
    /\ \E f \in 0 .. PushAttempts :
        LET pushed == IF debug THEN {} ELSE PushSteps({push_to_io(debug, f)})
            s == deep_sleep(clear_backoff(sleep_memory), FALSE)
        IN  IF pm25_averages = {}
            THEN /\ Halt("KeyError")
                 /\ steps' = steps \cup pushed
                 /\ UNCHANGED <<sleep_memory, sleep_kind, sleep_length,
                                esc_calls>>
            ELSE /\ steps' = steps \cup pushed \cup {"rendered", "cleared"}
                 /\ sleep_memory' = clear_backoff(sleep_memory)
                 /\ esc_calls' = 0
                 /\ EnterSleep(s.kind, s.length)
                 /\ UNCHANGED fault
    /\ UNCHANGED <<debug, alarm_vars, push_vars, cycle_start,
                   wake_alarm, esc_locals>>

(* ---------------- the specifications ---------------- *)

Next ==
    \/ TimerWake
    \/ PinWake
    \/ Restart
    \/ Setup
    \/ handle_alarms
    \/ ConnectFault
    \/ ConnectEnabled
    \/ ConnectNotEnabled
    \/ ConnectGiveUp
    \/ GetSht31dReadings
    \/ ReadOk
    \/ ReadFail
    \/ deep_sleep_exponential_backoff
    \/ SamplerReturn
    \/ get_pm25_averages
    \/ FinishCycle

(* the device from factory boot *)
Spec == Init /\ [][Next]_vars

(* the device started over an arbitrary persisted backoff state *)
SpecAny == InitAny /\ [][Next]_vars

(* one escalation over every persisted backoff state: the program stands   *)
(* at the turn of the sampling loop that follows its fourth failed read    *)
InitEsc ==
    /\ debug = FALSE
    /\ wake_alarm \in {"none", "timer"}
    /\ pc = "sample"
    /\ fault = "none"
    /\ pm25_standby_pin_io = TRUE
    /\ connect_tries = 0
    /\ connected = TRUE
    /\ not_enabled = 0
    /\ c = MaxFailedReadings + 1
    /\ failed_readings = MaxFailedReadings + 1
    /\ measurements = <<>>
    /\ pm25_averages = {}
    /\ steps = {}
    /\ sleep_kind = "none"
    /\ sleep_length = 0
    /\ sleep_time = 0
    /\ prior = NoBackoff
    /\ esc_calls = 0
    /\ light = 0
    /\ neopixel_brightness = 0
    /\ feed_key = "none"
    /\ x = 0
    /\ failed_push = FALSE
    /\ deliveries = <<>>
    /\ \E d \in 0 .. ByteMax, n \in PersistedCounts :
          sleep_memory = Persisted(d, n)
    /\ cycle_start = sleep_memory

NextEsc == deep_sleep_exponential_backoff

SpecEsc == InitEsc /\ [][NextEsc]_vars

(* one call of push_to_io for every feed, in both modes *)
InitPush ==
    /\ debug \in BOOLEAN
    /\ wake_alarm = "none"
    /\ pc = "push"
    /\ fault = "none"
    /\ pm25_standby_pin_io = TRUE
    /\ connect_tries = 0
    /\ connected = TRUE
    /\ not_enabled = 0
    /\ c = 0
    /\ failed_readings = 0
    /\ measurements = <<>>
    /\ pm25_averages = {}
    /\ steps = {}
    /\ sleep_kind = "none"
    /\ sleep_length = 0
    /\ sleep_time = 0
    /\ prior = NoBackoff
    /\ esc_calls = 0
    /\ light = 0
    /\ neopixel_brightness = 0
    /\ feed_key \in FeedKeys
    /\ x = 0
    /\ failed_push = FALSE
    /\ deliveries = <<>>
    /\ sleep_memory = Persisted(0, 0)
    /\ cycle_start = sleep_memory

NextPush ==
    \/ PushSkipped
    \/ PushDelivered
    \/ PushRuntimeError
    \/ PushExhausted

SpecPush == InitPush /\ [][NextPush]_vars

(* _handle_alarms() called for each wake reason: the standby pin exists    *)
(* unless the wake is a pin alarm                                          *)
InitAlarm ==
    /\ debug \in BOOLEAN
    /\ wake_alarm \in {"none", "timer", "pin"}
    /\ pc = "handle_alarms"
    /\ fault = "none"
    /\ pm25_standby_pin_io = (wake_alarm # "pin")
    /\ connect_tries = 0
    /\ connected = FALSE
    /\ not_enabled = 0
    /\ c = 0
    /\ failed_readings = 0
    /\ measurements = <<>>
    /\ pm25_averages = {}
    /\ steps = {}
    /\ sleep_kind = "none"
    /\ sleep_length = 0
    /\ sleep_time = 0
    /\ prior = NoBackoff
    /\ esc_calls = 0
    /\ light = 0
    /\ neopixel_brightness = 0
    /\ feed_key = "none"
    /\ x = 0
    /\ failed_push = FALSE
    /\ deliveries = <<>>
    /\ sleep_memory = Persisted(0, 0)
    /\ cycle_start = sleep_memory

NextAlarm == handle_alarms

(* the end of process_events() over every content of the sleep memory: the *)
(* averages are there and the labels are about to be set                   *)
InitClear ==
    /\ debug \in BOOLEAN
    /\ wake_alarm \in {"none", "timer"}
    /\ pc = "finish"
    /\ fault = "none"
    /\ pm25_standby_pin_io = TRUE
    /\ connect_tries = 0
    /\ connected = TRUE
    /\ not_enabled = 0
    /\ c = 0
    /\ failed_readings = 0
    /\ measurements = <<>>
    /\ pm25_averages = Columns
    /\ steps = {"sampled", "full_batch", "aggregated"}
    /\ sleep_kind = "none"
    /\ sleep_length = 0
    /\ sleep_time = 0
    /\ prior = NoBackoff
    /\ esc_calls = 0
    /\ light = 0
    /\ neopixel_brightness = 0
    /\ feed_key = "none"
    /\ x = 0
    /\ failed_push = FALSE
    /\ deliveries = <<>>
    /\ sleep_memory \in [Slots -> SlotValues]
    /\ cycle_start = sleep_memory

NextClear == FinishCycle

SpecClear == InitClear /\ [][NextClear]_vars

SpecAlarm == InitAlarm /\ [][NextAlarm]_vars


(* ---------------- properties ---------------- *)

Escalated == "escalated" \in steps

InBackoffSleep == pc = "sleeping" /\ sleep_kind = "backoff"

(* attempts 0 .. c-1 of the sampling loop that raised *)
FailedAttempts == {a \in 0 .. c - 1 : \A i \in 1 .. Len(measurements) : measurements[i] # a}

(* some MaxFailedReadings + 1 attempts in a row all raised *)
FailedInARow ==
    \E a \in 0 .. c - 1 - MaxFailedReadings :
        \A b \in a .. a + MaxFailedReadings : b \in FailedAttempts

(* the turn of the sampling loop that routes to backoff is about to run *)
Exhausted ==
    pc = "sample" /\ c < NumSamples(debug) /\ failed_readings > MaxFailedReadings

(* C1: every wake cycle ends in a sleep state; no cycle ends in an         *)
(* unhandled fault at the top level.                                       *)
C1_EveryCycleEndsInSleep == pc # "fault"

(* C2: on consecutive sampler-exhausted cycles from the inactive store,    *)
(* each backoff sleep is longer than the previous one (the delay doubles)  *)
(* until MAXIMUM_BACKOFF is reached.                                       *)
C2_BackoffSleepsGrow ==
    [][(/\ InBackoffSleep' /\ pc = "sample"
        /\ sleep_kind = "backoff"
        /\ sleep_length < MAXIMUM_BACKOFF)
       => (sleep_length' > sleep_length /\ sleep_length' = 2 * sleep_length)]_vars

(* C3: from a persisted delay within 0 .. MAXIMUM_BACKOFF, the delay one   *)
(* escalation persists is still <= MAXIMUM_BACKOFF.                        *)
C3_DoublingStaysBelowMaximum ==
    (Escalated /\ prior.delay_seconds \in 0 .. MAXIMUM_BACKOFF)
    => (sleep_time <= MAXIMUM_BACKOFF
        /\ sleep_memory[SLEEP_MEMORY_SLOT_BACKOFF] <= MAXIMUM_BACKOFF)

(* C4: from the inactive store, through any wake cycles and restarts, the  *)
(* persisted cycle_count stays within 0 .. MAX_BACKOFF_COUNT.              *)
C4_CycleCountBounded ==
    sleep_memory[SLEEP_MEMORY_SLOT_BACKOFF_TIMES] \in 0 .. MAX_BACKOFF_COUNT

(* C5: of the escalations that follow one another from {0,0} with no clear *)
(* between them, calls 1 .. 11 each enter backoff sleep and the 12th       *)
(* signals the fatal condition and does not sleep.                         *)
C5_FatalOnTwelfthCall ==
    /\ (Escalated /\ esc_calls < MAX_BACKOFF_COUNT) => InBackoffSleep
    /\ (Escalated /\ esc_calls = MAX_BACKOFF_COUNT)
           => (pc = "fault" /\ fault = "ConnectionError")
    /\ fault = "ConnectionError" => esc_calls >= MAX_BACKOFF_COUNT

C5_Witness ==
    /\ Escalated /\ esc_calls = MAX_BACKOFF_COUNT
    /\ pc = "fault" /\ fault = "ConnectionError"
    /\ prior.cycle_count = MAX_BACKOFF_COUNT - 1

(* C6: from any persisted state with delay_seconds = 0, whatever its       *)
(* cycle_count, escalation persists delay_seconds = MINIMUM_BACKOFF and    *)
(* cycle_count = 1.                                                        *)
C6_EscalationFromInactive ==
    (Escalated /\ prior.delay_seconds = 0)
    => /\ sleep_memory[SLEEP_MEMORY_SLOT_BACKOFF] = MINIMUM_BACKOFF
       /\ sleep_memory[SLEEP_MEMORY_SLOT_BACKOFF_TIMES] = 1
       /\ InBackoffSleep

C6_Witness ==
    /\ Escalated
    /\ prior.delay_seconds = 0 /\ prior.cycle_count = MAX_BACKOFF_COUNT
    /\ sleep_memory[SLEEP_MEMORY_SLOT_BACKOFF] = MINIMUM_BACKOFF
    /\ sleep_memory[SLEEP_MEMORY_SLOT_BACKOFF_TIMES] = 1

(* C7: from any persisted state with MINIMUM_BACKOFF < delay_seconds <     *)
(* MAXIMUM_BACKOFF, escalation persists twice the delay and the count      *)
(* plus one.                                                               *)
C7_EscalationDoubles ==
    (/\ Escalated
     /\ MINIMUM_BACKOFF < prior.delay_seconds
     /\ prior.delay_seconds < MAXIMUM_BACKOFF)
    => /\ sleep_memory[SLEEP_MEMORY_SLOT_BACKOFF] = 2 * prior.delay_seconds
       /\ sleep_memory[SLEEP_MEMORY_SLOT_BACKOFF_TIMES] = prior.cycle_count + 1

(* C8: when the sampler is exhausted and escalation does not signal the    *)
(* fatal condition, the cycle ends in backoff sleep with no aggregation,   *)
(* rendering or clearing, and the time alarm is set to the delay that      *)
(* escalation just persisted.                                              *)
C8_ExhaustedEntersBackoffSleep ==
    (Escalated /\ fault # "ConnectionError")
    => /\ InBackoffSleep
       /\ sleep_length = sleep_memory[SLEEP_MEMORY_SLOT_BACKOFF]
       /\ sleep_length = sleep_time
       /\ steps \cap {"aggregated", "rendered", "cleared"} = {}

(* C9: a sampler whose failure counter exceeded the threshold during its   *)
(* n attempts never returns a batch.                                       *)
C9_NoBatchPastThreshold ==
    pc = "aggregate" => failed_readings <= MaxFailedReadings

(* C10: the threshold counts consecutive failures: the sampler is          *)
(* exhausted only when more than max_consecutive_failures reads failed in  *)
(* a row.                                                                  *)
C10_ConsecutiveSemantics == Exhausted => FailedInARow

(* C10 as amended: the threshold counts the failures of the batch: a       *)
(* successful read leaves the counter alone, so the counter is the number  *)
(* of failed attempts so far and the sampler is exhausted when more than   *)
(* the threshold of them failed, in a row or not.                          *)
C10_CumulativeSemantics ==
    pc \in {"sample", "aggregate"}
    => /\ failed_readings = c - Len(measurements)
       /\ failed_readings = Cardinality(FailedAttempts)

C10_Witness ==
    /\ Exhausted
    /\ ~FailedInARow
    /\ measurements # <<>>

(* C11: a sampler that returns hands back exactly the reads that           *)
(* succeeded, in the order they were attempted: n attempts were made, each *)
(* failed one is dropped and not tried again, so the batch holds n minus   *)
(* the number of failed attempts readings.                                 *)
C11_BatchIsSuccessfulReads ==
    pc = "aggregate"
    => /\ c = NumSamples(debug)
       /\ Len(measurements) = NumSamples(debug) - failed_readings
       /\ \A i \in 1 .. Len(measurements) :
              measurements[i] \in 0 .. NumSamples(debug) - 1
       /\ \A i, j \in 1 .. Len(measurements) :
              i < j => measurements[i] < measurements[j]
       /\ Cardinality(FailedAttempts) = failed_readings

(* the first read failed and the other n - 1 succeeded *)
C11_Witness ==
    /\ pc = "aggregate"
    /\ ~debug
    /\ failed_readings = 1
    /\ measurements = [i \in 1 .. NumSamples(debug) - 1 |-> i]

(* the last call of the collaborator returned: the value was delivered *)
Delivered == deliveries # <<>> /\ deliveries[Len(deliveries)] = "ok"

(* the calls of the collaborator that raised *)
Faults == Cardinality({i \in 1 .. Len(deliveries) : deliveries[i] = "RuntimeError"})

(* C12: the value push_to_io returns is true exactly when the value was    *)
(* delivered within the 3 attempts, and false when every attempt failed.   *)
C12_PushReturnsDelivered ==
    pc = "pushed" => (failed_push <=> Delivered)

(* C13: one push_to_io call outside debug mode calls the collaborator at   *)
(* most 3 times; no call follows one that returned, so a first success on  *)
(* attempt k means k calls; a call that raises does not end the loop, so   *)
(* a push that delivered nothing made exactly 3 calls.                     *)
C13_AttemptsBounded ==
    /\ Len(deliveries) <= PushAttempts
    /\ \A i \in 1 .. Len(deliveries) - 1 : deliveries[i] = "RuntimeError"
    /\ pc = "push" => x = Len(deliveries)
    /\ (pc = "pushed" /\ ~debug /\ ~Delivered)
           => (Len(deliveries) = PushAttempts /\ Faults = PushAttempts)
    /\ (pc = "pushed" /\ Delivered) => Len(deliveries) = Faults + 1
    /\ pc = "pushed"
           => push_to_io(debug, Faults)
              = [attempts |-> Len(deliveries), returned |-> failed_push]

(* two faults, then a delivery on the third attempt *)
C13_Witness ==
    /\ pc = "pushed"
    /\ deliveries = <<"RuntimeError", "RuntimeError", "ok">>

(* C14: a cycle whose sampler returned and in which some push used up its  *)
(* attempts still renders, clears the store and ends in normal sleep: it   *)
(* neither escalates nor halts.                                            *)
C14_PushFailuresNotFatal ==
    ("sampled" \in steps /\ "push_exhausted" \in steps)
    => /\ pc # "fault"
       /\ ~Escalated
       /\ pc = "sleeping"
              => /\ sleep_kind = "normal"
                 /\ sleep_length = REFRESH_TIME
                 /\ {"rendered", "cleared"} \subseteq steps
                 /\ BackoffState(sleep_memory) = NoBackoff

C14_Witness ==
    /\ pc = "sleeping"
    /\ sleep_kind = "normal"
    /\ {"sampled", "push_exhausted", "rendered", "cleared"} \subseteq steps

(* calls of network.connect() this cycle has made and seen fail *)
ConnectAttempts == connect_tries + not_enabled

(* C15: whatever the network does, a cycle calls network.connect() at most *)
(* MaxConnectTries + 1 = 6 times.                                          *)
C15_AtMostSixAttempts ==
    pc = "connect" => ConnectAttempts <= MaxConnectTries + 1

InConnectFailureSleep == pc = "sleeping" /\ sleep_kind = "connect_failure"

(* C16: a cycle that ends in the connect-failure sleep leaves the          *)
(* persisted backoff state as the cycle found it: it has neither escalated *)
(* nor cleared, and sleeps for the fixed 5 minutes.                        *)
C16_ConnectFailureKeepsStore ==
    InConnectFailureSleep
    => /\ sleep_memory = cycle_start
       /\ BackoffState(sleep_memory) = BackoffState(cycle_start)
       /\ steps \cap {"escalated", "cleared"} = {}
       /\ sleep_length = ConnectFailureSleep

(* the connect-failure sleep over an active backoff state *)
C16_Witness ==
    /\ InConnectFailureSleep
    /\ BackoffState(sleep_memory).delay_seconds > 0
    /\ BackoffState(sleep_memory).cycle_count > 0

InNormalSleep == pc = "sleeping" /\ sleep_kind = "normal"

(* C17: a cycle woken by the pin alarm lights the indicator and goes       *)
(* straight to normal sleep: it reads no sensor, does not connect, pushes  *)
(* nothing and does not halt on the way.                                   *)
C17_PinWakeGoesToSleep ==
    wake_alarm = "pin"
    => /\ pc \in {"setup", "handle_alarms", "sleeping"}
       /\ steps \subseteq {"indicator"}
       /\ pc = "sleeping" => (InNormalSleep /\ "indicator" \in steps)

(* the brightness table by bracket of the light level, in hundredths *)
BrightnessByBracket(l) ==
    IF l < 700 THEN 25
    ELSE IF l < 1500 THEN 50
    ELSE IF l < 2000 THEN 75
    ELSE 100

(* the pin alarm has been handled *)
PinHandled == wake_alarm = "pin" /\ "indicator" \in steps

(* C18: on a pin alarm the indicator brightness is the one of the bracket  *)
(* the light level falls in: below 700 0.25, below 1500 0.5, below 2000    *)
(* 0.75, otherwise 1.0.                                                    *)
C18_BrightnessByBracket ==
    PinHandled => neopixel_brightness = BrightnessByBracket(light)

(* C19: on a pin alarm with a light level of 1000 the brightness is 0.75.  *)
C19_BrightnessAtLight1000 ==
    (PinHandled /\ light = 1000) => neopixel_brightness = 75

(* C20: every entry into normal sleep, from a completed cycle or from the  *)
(* handling of a pin alarm, has cleared the backoff store first.           *)
C20_NormalSleepClears ==
    InNormalSleep => "cleared" \in steps

(* C21: a cycle woken by the timer or by a cold boot in which connect      *)
(* succeeded, every read of the batch succeeded and no push used up its    *)
(* attempts does not halt or escalate, and sleeps in normal sleep with the *)
(* backoff state {0,0}, whatever the store held when the cycle began.      *)
C21_FullSuccessClearsStore ==
    (/\ wake_alarm \in {"none", "timer"}
     /\ "full_batch" \in steps
     /\ "push_exhausted" \notin steps)
    => /\ connected \/ pc = "sleeping"
       /\ pc # "fault"
       /\ ~Escalated
       /\ pc = "sleeping"
              => /\ InNormalSleep
                 /\ {"rendered", "cleared"} \subseteq steps
                 /\ BackoffState(sleep_memory) = NoBackoff

(* such a cycle, begun over an active backoff state *)
C21_Witness ==
    /\ InNormalSleep
    /\ wake_alarm = "timer"
    /\ {"full_batch", "push", "rendered"} \subseteq steps
    /\ "push_exhausted" \notin steps
    /\ BackoffState(cycle_start).delay_seconds > 0
    /\ BackoffState(cycle_start).cycle_count > 0
    /\ BackoffState(sleep_memory) = NoBackoff

(* C22: a cycle whose sampler returned an empty batch is routed to backoff *)
(* sleep: it does not end in a missing-key failure, and a cycle that       *)
(* sampled and did not render sleeps in backoff sleep.                     *)
C22_EmptyBatchRoutesToBackoff ==
    /\ fault # "KeyError"
    /\ ("sampled" \in steps /\ "rendered" \notin steps /\ pc = "sleeping")
           => InBackoffSleep

(* the slots of the sleep memory that hold no backoff state *)
OtherSlots == Slots \ {SLEEP_MEMORY_SLOT_BACKOFF, SLEEP_MEMORY_SLOT_BACKOFF_TIMES}

(* C23: whatever the two backoff slots held, after clear_backoff() they    *)
(* read {0,0}, and the remaining slot of the sleep memory holds what it    *)
(* held before.                                                            *)
C23_ClearThenRead ==
    "cleared" \in steps
    => /\ BackoffState(sleep_memory) = NoBackoff
       /\ sleep_memory[SLEEP_MEMORY_SLOT_BACKOFF] = 0
       /\ sleep_memory[SLEEP_MEMORY_SLOT_BACKOFF_TIMES] = 0
       /\ DOMAIN sleep_memory = Slots
       /\ \A s \in OtherSlots : sleep_memory[s] = cycle_start[s]

(* a clear over three slots none of which held zero *)
C23_Witness ==
    /\ "cleared" \in steps
    /\ \A s \in Slots : cycle_start[s] = ByteMax
    /\ BackoffState(sleep_memory) = NoBackoff

Pushed == "push" \in steps

C25_NormalModeBatchAtLeastSix ==
    ~debug
    => /\ pc = "aggregate" => Len(measurements) >= 6
       /\ pc = "finish" => pm25_averages = Columns

(* the smallest batch: four failed reads, the last of them on the last     *)
(* attempt                                                                 *)
C25_Witness ==
    /\ ~debug
    /\ pc = "aggregate"
    /\ Len(measurements) = 6
    /\ failed_readings = MaxFailedReadings + 1

(* C26: from the inactive store, whenever the device is in normal sleep    *)
(* the persisted backoff state is {0,0}; a pin wake only ends a normal     *)
(* sleep, so it never finds a backoff state that is not {0,0}.             *)
C26_NormalSleepStoreClear ==
    /\ InNormalSleep => BackoffState(sleep_memory) = NoBackoff
    /\ wake_alarm = "pin"
           => /\ BackoffState(sleep_memory) = NoBackoff
              /\ BackoffState(cycle_start) = NoBackoff

(* normal sleep at the end of a cycle that began over an active state *)
C26_Witness ==
    /\ InNormalSleep
    /\ BackoffState(cycle_start) # NoBackoff
    /\ BackoffState(sleep_memory) = NoBackoff

CycleCount == sleep_memory[SLEEP_MEMORY_SLOT_BACKOFF_TIMES]

(* C27: from the inactive store the persisted cycle_count is the number of *)
(* sampler-exhausted cycles since the last completed cycle: a completed    *)
(* cycle resets it to 0, a connect-failure cycle leaves it as it was, and  *)
(* the fatal condition is signalled only when MAX_BACKOFF_COUNT or more    *)
(* such cycles have run with no completed cycle between them.              *)
C27_FatalOnlyAfterTwelveExhausted ==
    /\ CycleCount = esc_calls
    /\ fault = "ConnectionError"
           => (Escalated /\ esc_calls >= MAX_BACKOFF_COUNT)
    /\ (pc = "sleeping" /\ "rendered" \in steps)
           => (CycleCount = 0 /\ esc_calls = 0)
    /\ InConnectFailureSleep
           => CycleCount = cycle_start[SLEEP_MEMORY_SLOT_BACKOFF_TIMES]

(* the twelfth exhausted cycle in a row, woken by the timer of the         *)
(* eleventh backoff sleep                                                  *)
C27_Witness ==
    /\ pc = "fault"
    /\ fault = "ConnectionError"
    /\ wake_alarm = "timer"
    /\ CycleCount = MAX_BACKOFF_COUNT
    /\ esc_calls = MAX_BACKOFF_COUNT

====
